---- MODULE Spec2Model ----
(***************************************************************************)
(* Model of PyImageOrganizer's ImageOrganizer                              *)
(* (src/py_image_organizer/image_organizer.py).                            *)
(*                                                                         *)
(* Strings are sequences of one-character strings, so that split, replace, *)
(* lower, the regular expression of _check_for_dupes and the ordering of   *)
(* paths are computed the way the code computes them.  A path is a         *)
(* sequence of parts; the output tree is modelled relative to              *)
(* working_directory.  The scanned directory and the output root are       *)
(* disjoint trees.                                                         *)
(***************************************************************************)
EXTENDS Integers, Sequences, FiniteSets, TLC

\* ------------------------------------------------------------------ bounds
\* Number of parse_dir calls made on one ImageOrganizer object.
MaxRuns == 2
\* Number of entries of the scanned directory tree.
MaxFiles == 2

\* ------------------------------------------------------------- characters
\* The characters the model uses, in code point order (str comparison in
\* Python compares code points).  "NUL" stands for "\x00".
AsciiOrder ==
    << "NUL", " ", "(", ")", "-", ".", "/",
       "0", "1", "2", "3", "4", "5", "6", "7", "8", "9", ":",
       "A", "B", "C", "D", "E", "F", "G", "H", "I", "J", "K", "L", "M",
       "N", "O", "P", "Q", "R", "S", "T", "U", "V", "W", "X", "Y", "Z",
       "[", "]",
       "a", "b", "c", "d", "e", "f", "g", "h", "i", "j", "k", "l", "m",
       "n", "o", "p", "q", "r", "s", "t", "u", "v", "w", "x", "y", "z" >>

Chars == { AsciiOrder[i] : i \in 1..Len(AsciiOrder) }

Ord == [ c \in Chars |-> CHOOSE i \in 1..Len(AsciiOrder) : AsciiOrder[i] = c ]

Digits == << "0", "1", "2", "3", "4", "5", "6", "7", "8", "9" >>

IsDigit(c) == \E i \in 1..10 : Digits[i] = c

DigitVal(c) == (CHOOSE i \in 1..10 : Digits[i] = c) - 1

UpperFirst == Ord["A"]

LowerFirst == Ord["a"]

\* str.lower() on one character
LowerChar(c) ==
    IF Ord[c] >= UpperFirst /\ Ord[c] < UpperFirst + 26
    THEN AsciiOrder[Ord[c] - UpperFirst + LowerFirst]
    ELSE c

\* str.lower()
Lower(s) == [ i \in 1..Len(s) |-> LowerChar(s[i]) ]

\* str < str
RECURSIVE StrLess(_, _)
StrLess(a, b) ==
    IF b = << >> THEN FALSE
    ELSE IF a = << >> THEN TRUE
    ELSE IF Head(a) = Head(b) THEN StrLess(Tail(a), Tail(b))
    ELSE Ord[Head(a)] < Ord[Head(b)]

\* str.split(sep) for a one-character separator: always at least one piece
RECURSIVE Split(_, _)
Split(s, sep) ==
    IF \A i \in 1..Len(s) : s[i] # sep THEN << s >>
    ELSE LET k == CHOOSE i \in 1..Len(s) :
                     s[i] = sep /\ \A j \in 1..(i - 1) : s[j] # sep
         IN  << SubSeq(s, 1, k - 1) >> \o Split(SubSeq(s, k + 1, Len(s)), sep)

\* str.replace(old, new) for one-character old and a string new
RECURSIVE Replace(_, _, _)
Replace(s, old, new) ==
    IF s = << >> THEN << >>
    ELSE (IF Head(s) = old THEN new ELSE << Head(s) >>)
         \o Replace(Tail(s), old, new)

\* str(int) for a natural number
RECURSIVE DecStr(_)
DecStr(n) ==
    IF n < 10 THEN << Digits[n + 1] >>
    ELSE DecStr(n \div 10) \o << Digits[(n % 10) + 1] >>

\* int(str) on a string of decimal digits
RECURSIVE DecVal(_)
DecVal(s) ==
    IF s = << >> THEN 0
    ELSE 10 * DecVal(SubSeq(s, 1, Len(s) - 1)) + DigitVal(s[Len(s)])

\* int(str): ValueError unless the string is a non-empty run of digits
IntParse(s) ==
    IF s # << >> /\ \A i \in 1..Len(s) : IsDigit(s[i])
    THEN [exc |-> "none", val |-> DecVal(s)]
    ELSE [exc |-> "ValueError", val |-> 0]

\* strftime's zero-padded fields
Pad2(n) == << Digits[(n \div 10) + 1], Digits[(n % 10) + 1] >>

Pad4(n) == Pad2(n \div 100) \o Pad2(n % 100)

\* substring test: sub in s
Contains(s, sub) ==
    \E i \in 1..(Len(s) - Len(sub) + 1) : SubSeq(s, i, i + Len(sub) - 1) = sub

\* ------------------------------------------------------------------ paths
\* Path.__truediv__: joining with the empty string leaves the path unchanged
PathJoin(dir, part) == IF part = << >> THEN dir ELSE Append(dir, part)

\* Path.name
Name(path) == path[Len(path)]

\* Path.parent
Parent(path) == SubSeq(path, 1, Len(path) - 1)

\* Position of the last "." of a name, 0 when there is none (str.rfind + 1)
LastDot(name) ==
    IF \E i \in 1..Len(name) : name[i] = "."
    THEN CHOOSE i \in 1..Len(name) :
             name[i] = "." /\ \A j \in (i + 1)..Len(name) : name[j] # "."
    ELSE 0

\* Path.suffix of a file name
Suffix(name) ==
    LET k == LastDot(name)
    IN  IF 1 < k /\ k < Len(name) THEN SubSeq(name, k, Len(name)) ELSE << >>

\* Path.with_suffix("") of a file name
WithoutSuffix(name) == SubSeq(name, 1, Len(name) - Len(Suffix(name)))

\* Path.__lt__: paths compare part by part
RECURSIVE PathLess(_, _)
PathLess(p, q) ==
    IF q = << >> THEN FALSE
    ELSE IF p = << >> THEN TRUE
    ELSE IF Head(p) = Head(q) THEN PathLess(Tail(p), Tail(q))
    ELSE StrLess(Head(p), Head(q))

\* sorted(paths)
RECURSIVE SortPaths(_)
SortPaths(S) ==
    IF S = {} THEN << >>
    ELSE LET m == CHOOSE p \in S : \A q \in S \ {p} : PathLess(p, q)
         IN  << m >> \o SortPaths(S \ {m})

\* sorted(paths, reverse=True)
Reverse(seq) == [ i \in 1..Len(seq) |-> seq[Len(seq) + 1 - i] ]

\* str(path): the parts joined by the separator
RECURSIVE StrPath(_)
StrPath(path) ==
    IF path = << >> THEN << >>
    ELSE IF Len(path) = 1 THEN path[1]
    ELSE path[1] \o << "/" >> \o StrPath(Tail(path))

\* the glob pattern "*.*" matches the names that contain a dot
MatchesStarDotStar(name) == \E i \in 1..Len(name) : name[i] = "."

\* ------------------------------------------------- library and configuration
\* calendar.month_name: index 0 is the empty string, 1..12 the month names
month_name ==
    << <<  >>,
       << "J", "a", "n", "u", "a", "r", "y" >>,
       << "F", "e", "b", "r", "u", "a", "r", "y" >>,
       << "M", "a", "r", "c", "h" >>,
       << "A", "p", "r", "i", "l" >>,
       << "M", "a", "y" >>,
       << "J", "u", "n", "e" >>,
       << "J", "u", "l", "y" >>,
       << "A", "u", "g", "u", "s", "t" >>,
       << "S", "e", "p", "t", "e", "m", "b", "e", "r" >>,
       << "O", "c", "t", "o", "b", "e", "r" >>,
       << "N", "o", "v", "e", "m", "b", "e", "r" >>,
       << "D", "e", "c", "e", "m", "b", "e", "r" >> >>

\* mimetypes' table for the extensions of the scanned files (lower case keys)
TypesMap(ext) ==
    CASE ext = << ".", "j", "p", "g" >> -> << "i", "m", "a", "g", "e", "/", "j", "p", "e", "g" >>
      [] ext = << ".", "p", "n", "g" >> -> << "i", "m", "a", "g", "e", "/", "p", "n", "g" >>
      [] ext = << ".", "m", "p", "4" >> -> << "v", "i", "d", "e", "o", "/", "m", "p", "4" >>
      [] ext = << ".", "m", "p", "3" >> -> << "a", "u", "d", "i", "o", "/", "m", "p", "e", "g" >>
      [] ext = << ".", "t", "x", "t" >> -> << "t", "e", "x", "t", "/", "p", "l", "a", "i", "n" >>
      [] OTHER -> << >>

\* mimetypes.guess_type(file)[0]: by extension, retried in lower case;
\* the empty string stands for None
GuessType(path) == TypesMap(Lower(Suffix(Name(path))))

\* ImageOrganizer.__init__: working_directory and the three folder names
working_dir == << "o", "u", "t" >>

image_dir_name == << "i", "m", "a", "g", "e", "s" >>

video_dir_name == << "v", "i", "d", "e", "o", "s" >>

unknown_dir_name == << "u", "n", "k", "n", "o", "w", "n" >>

\* _make_directories: the category directories, relative to working_dir
image_dir == << image_dir_name >>

video_dir == << video_dir_name >>

unknown_dir == << unknown_dir_name >>

\* The value _get_exif compares the tag with, and the tag's name
SentinelLiteral == << "0", "0", "-", "0", "0", "-", "0", "0", "0", "0", " ", "[", "0", "0", ":", "0", "0", ":", "0", "0", "]" >>

\* None, as the falsy value of a string-valued result
None == << >>

\* --------------------------------------------------------- classification
\* Mutant of check_filetype_media_info: the handler of Exception is missing,
\* so a failure of the probe leaves the method
check_filetype_media_info_uncaught(file) ==
    IF file.probe.raises = "none"
    THEN IF Len(file.probe.tracks) >= 2
         THEN [val |-> file.probe.tracks[2], logged |-> FALSE, exc |-> "none"]
         ELSE [val |-> "None", logged |-> FALSE, exc |-> "none"]
    ELSE IF file.probe.raises = "IndexError"
    THEN [val |-> "None", logged |-> FALSE, exc |-> "none"]
    ELSE [val |-> "None", logged |-> FALSE, exc |-> file.probe.raises]

\* _check_filetype_media_info: file.probe.raises is the exception MediaInfo.parse
\* raises ("none" when it returns), file.probe.tracks the track types of the
\* parsed file, tracks[1] of the code being the second one.  logged: an entry
\* is appended to the exception log.  exc: the exception leaving the method.
check_filetype_media_info(file) ==
    IF file.probe.raises = "none"
    THEN IF Len(file.probe.tracks) >= 2
         THEN [val |-> file.probe.tracks[2], logged |-> FALSE, exc |-> "none"]
         ELSE [val |-> "None", logged |-> FALSE, exc |-> "none"]
    ELSE IF file.probe.raises = "IndexError"
    THEN [val |-> "None", logged |-> FALSE, exc |-> "none"]
    ELSE [val |-> "None", logged |-> TRUE, exc |-> "none"]

\* str(mimetypes.guess_type(file)): the tuple (type, encoding) as text
StrGuess(path) ==
    IF GuessType(path) = None THEN << "(", "N", "o", "n", "e", ",", " ", "N", "o", "n", "e", ")" >>
    ELSE << "(", "'" >> \o GuessType(path) \o << "'", ",", " " >> \o << "N", "o", "n", "e", ")" >>

\* _check_filetype_mime
check_filetype_mime(file) ==
    IF Contains(StrGuess(file.path), << "i", "m", "a", "g", "e" >>)
    THEN [val |-> "Image", logged |-> FALSE, exc |-> "none"]
    ELSE IF Contains(StrGuess(file.path), << "v", "i", "d", "e", "o" >>)
    THEN [val |-> "Video", logged |-> FALSE, exc |-> "none"]
    ELSE [val |-> "None", logged |-> FALSE, exc |-> "none"]

\* parse_dir, "determine media type"
MediaType(file, fast) ==
    IF ~fast THEN check_filetype_media_info(file) ELSE check_filetype_mime(file)

\* -------------------------------------------------------------- timestamps
\* _get_exif, the conversion of the tag: KeyError and IndexError give None
ConvertExif(ifd) ==
    IF "DateTimeOriginal" \notin DOMAIN ifd THEN None
    ELSE
      LET exif_date_time_original ==
              Replace(ifd["DateTimeOriginal"], "NUL", << >>)
          by_space == Split(exif_date_time_original, " ")
          date_month == Split(by_space[1], ":")
      IN  IF exif_date_time_original = SentinelLiteral THEN None
          ELSE IF Len(by_space) < 2 THEN None
          ELSE IF Len(date_month) < 3 THEN None
          ELSE date_month[2] \o << "-" >> \o date_month[3] \o << "-" >>
               \o date_month[1] \o << " ", "[" >>
               \o Replace(by_space[2], ":", << "." >>) \o << "]" >>

\* _get_exif: file.exif.open is the outcome of Image.open(file).getexif(),
\* file.exif.ifd the Exif IFD by tag name
get_exif(file) ==
    IF file.exif.open \in {"UnidentifiedImageError", "OSError"}
    THEN [val |-> None, logged |-> FALSE]
    ELSE IF file.exif.open # "ok"
    THEN [val |-> None, logged |-> TRUE]
    ELSE IF DOMAIN file.exif.ifd = {}
    THEN [val |-> None, logged |-> FALSE]
    ELSE [val |-> ConvertExif(file.exif.ifd), logged |-> FALSE]

\* _get_modification_time: strftime("%m-%d-%Y [%H.%M.%S]") of st_mtime
get_modification_time(file) ==
    Pad2(file.mtime.mo) \o << "-" >> \o Pad2(file.mtime.d) \o << "-" >>
    \o Pad4(file.mtime.y) \o << " ", "[" >> \o Pad2(file.mtime.h) \o << "." >>
    \o Pad2(file.mtime.mi) \o << "." >> \o Pad2(file.mtime.s) \o << "]" >>

\* parse_dir: the exif date, else the modification time
FileCreationDate(file) ==
    IF get_exif(file).val # None THEN get_exif(file).val
    ELSE get_modification_time(file)

\* ------------------------------------------------------ collision handling
\* re.search(r"\((\d+)\)", s): the leftmost "(" followed by one or more digits
\* and ")"; group(1) as a string, None without a match
RegexSearch(s) ==
    LET starts == { i \in 1..Len(s) :
                      /\ s[i] = "("
                      /\ \E j \in (i + 2)..Len(s) :
                            /\ s[j] = ")"
                            /\ \A k \in (i + 1)..(j - 1) : IsDigit(s[k]) }
    IN  IF starts = {} THEN None
        ELSE LET i == CHOOSE a \in starts : \A b \in starts : a <= b
                 j == CHOOSE c \in (i + 2)..Len(s) :
                          /\ s[c] = ")"
                          /\ \A k \in (i + 1)..(c - 1) : IsDigit(s[k])
             IN  SubSeq(s, i + 1, j - 1)

\* Path(folder).glob("*.*"): the entries of folder whose name has a dot;
\* fs is the set of paths that exist under working_dir
Glob(fs, folder) ==
    { p \in fs : Len(p) > 0 /\ Parent(p) = folder /\ MatchesStarDotStar(Name(p)) }

\* _check_for_dupes, the loop: get_last_dupe is assigned for every x in turn
RECURSIVE LoopLastDupe(_, _)
LoopLastDupe(xs, get_last_dupe) ==
    IF xs = << >> THEN get_last_dupe
    ELSE LoopLastDupe(Tail(xs), RegexSearch(StrPath(<< working_dir >> \o Head(xs))))

\* _check_for_dupes: the new file name
check_for_dupes(fs, file_dir, get_year, get_month, file_name) ==
    LET folder == PathJoin(PathJoin(file_dir, get_year), get_month)
        get_last_dupe ==
            LoopLastDupe(Reverse(SortPaths(Glob(fs, folder))), None)
        dupe == IF get_last_dupe # None
                THEN << "(" >> \o DecStr(DecVal(get_last_dupe) + 1) \o << ")" >>
                ELSE << "(", "1", ")" >>
    IN  WithoutSuffix(file_name) \o dupe \o Suffix(file_name)

\* ---------------------------------------------------------------- placement
\* _img_sorter / _video_sorter / _unknown_sorter: get_year
get_year(time) == Split(Split(time, " ")[1], "-")[3]

\* get_month: int() raises ValueError, month_name[] raises IndexError
get_month(time) ==
    LET m == IntParse(Split(Split(time, " ")[1], "-")[1])
    IN  IF m.exc # "none" THEN [exc |-> m.exc, val |-> << >>]
        ELSE IF m.val + 1 > Len(month_name)
        THEN [exc |-> "IndexError", val |-> << >>]
        ELSE [exc |-> "none", val |-> Lower(month_name[m.val + 1])]

\* Mutant of FileName: the name is not lowered
FileNameNotLowered(path, time) == time \o Suffix(Name(path))

\* file_name = str(time + Path(file).suffix).lower()
FileName(path, time) == Lower(time \o Suffix(Name(path)))

\* A sorter that raises: the directories made before the exception remain
SorterRaise(exc, made) ==
    [exc |-> exc, made |-> made, file_name |-> << >>, date_dir_file |-> << >>,
     collided |-> FALSE, dest |-> << >>]

\* The body shared by the three sorters; files and dirs are the paths that
\* exist under working_dir.  The result names the directories made, the
\* computed destination, whether it existed, and the path written.
sorter(files, dirs, file_dir, path, time) ==
    IF Len(Split(Split(time, " ")[1], "-")) < 3
    THEN SorterRaise("IndexError", {})
    ELSE
      LET year_dir == PathJoin(file_dir, get_year(time))
      IN  IF get_month(time).exc # "none"
          THEN SorterRaise(get_month(time).exc, {year_dir})
          ELSE
            LET month_dir == PathJoin(year_dir, get_month(time).val)
                file_name == FileName(path, time)
                date_dir_file == PathJoin(month_dir, file_name)
                exists == date_dir_file \in files \cup dirs \cup {year_dir, month_dir}
                new_file_name ==
                    check_for_dupes(files \cup dirs \cup {year_dir, month_dir},
                                    file_dir, get_year(time),
                                    get_month(time).val, file_name)
            IN  [exc |-> "none", made |-> {year_dir, month_dir},
                 file_name |-> file_name, date_dir_file |-> date_dir_file,
                 collided |-> exists,
                 dest |-> IF ~exists THEN date_dir_file
                          ELSE PathJoin(Parent(date_dir_file), new_file_name)]

\* _img_sorter
img_sorter(files, dirs, path, time) == sorter(files, dirs, image_dir, path, time)

\* _video_sorter
video_sorter(files, dirs, path, time) == sorter(files, dirs, video_dir, path, time)

\* _unknown_sorter
unknown_sorter(files, dirs, path, time) == sorter(files, dirs, unknown_dir, path, time)

\* parse_dir, lines 150-164: which sorter a media type is sent to; a media
\* type that is neither None, "Image" nor "Video" is sent to none
Branch(media_type) ==
    IF media_type # "None"
    THEN IF media_type = "Image" THEN "image"
         ELSE IF media_type = "Video" THEN "video"
         ELSE "none"
    ELSE "unknown"

\* The sorter call of a branch
CallSorter(branch, files, dirs, path, time) ==
    CASE branch = "image" -> img_sorter(files, dirs, path, time)
      [] branch = "video" -> video_sorter(files, dirs, path, time)
      [] OTHER -> unknown_sorter(files, dirs, path, time)

\* Mutant of CountersAfter: the video branch increments total_images
CountersAfterMiscount(branch, totals) ==
    CASE branch = "image" -> [totals EXCEPT !.images = @ + 1]
      [] branch = "video" -> [totals EXCEPT !.images = @ + 1]
      [] branch = "unknown" -> [totals EXCEPT !.unknown = @ + 1]
      [] OTHER -> totals

\* The counter statements that follow the sorter calls
CountersAfter(branch, totals) ==
    CASE branch = "image" -> [totals EXCEPT !.images = @ + 1]
      [] branch = "video" -> [totals EXCEPT !.videos = @ + 1]
      [] branch = "unknown" -> [totals EXCEPT !.unknown = @ + 1]
      [] OTHER -> totals

\* Mutant of CountersOnRaise: the counter is incremented before the sorter is
\* called
CountersBeforeSorter(branch, totals) == CountersAfter(branch, totals)

\* The counters when the sorter call raises: the statement after the call is
\* not reached
CountersOnRaise(branch, totals) == totals

\* ------------------------------------------------------ the scanned entries
\* st_mtime of the scanned files, as local broken-down times
MTimeA == [y |-> 2020, mo |-> 5, d |-> 6, h |-> 7, mi |-> 8, s |-> 9]

MTimeB == [y |-> 2021, mo |-> 12, d |-> 31, h |-> 23, mi |-> 59, s |-> 58]

NoProbe == [raises |-> "none", tracks |-> << >>]

NoExif == [open |-> "UnidentifiedImageError", ifd |-> << >>]

Tracks(kind) == [raises |-> "none", tracks |-> << "General", kind >>]

ExifDate(value) == [open |-> "ok", ifd |-> [t \in {"DateTimeOriginal"} |-> value]]

RegularFile(path, exif, mtime, probe) ==
    [path |-> path, isfile |-> TRUE, exif |-> exif, mtime |-> mtime, probe |-> probe]

\* A regular file whose copy2/move raises OSError (permissions, disk full,
\* path too long)
UncopyableFile(path, exif, mtime, probe) ==
    [path |-> path, isfile |-> TRUE, exif |-> exif, mtime |-> mtime,
     probe |-> probe, copy_error |-> "OSError"]

\* The exception copy2/move of a file raises, "none" when it succeeds
CopyError(file) ==
    IF "copy_error" \in DOMAIN file THEN file.copy_error ELSE "none"

Directory(path) ==
    [path |-> path, isfile |-> FALSE, exif |-> NoExif, mtime |-> MTimeA, probe |-> NoProbe]

\* The entries a scanned tree is drawn from: images with a capture date (one
\* with a trailing NUL, one in a sub-directory), with the all-zero date, with
\* a month out of range, with a date that has no time part, without the tag;
\* a video, an audio file, a file the probe fails on, a text file whose name
\* has no dot, a file that cannot be copied or moved, and a directory whose
\* name has a dot.
EntryPool ==
    { RegularFile(<< << "a", ".", "J", "P", "G" >> >>, ExifDate(<< "2", "0", "1", "3", ":", "1", "0", ":", "0", "1", " ", "0", "9", ":", "1", "7", ":", "5", "0" >>), MTimeA, Tracks("Image")),
      RegularFile(<< << "b", ".", "j", "p", "g" >> >>, ExifDate(<< "2", "0", "1", "3", ":", "1", "0", ":", "0", "1", " ", "0", "9", ":", "1", "7", ":", "5", "0" >> \o << "NUL" >>), MTimeA, Tracks("Image")),
      RegularFile(<< << "c", ".", "j", "p", "g" >> >>, ExifDate(<< "0", "0", "0", "0", ":", "0", "0", ":", "0", "0", " ", "0", "0", ":", "0", "0", ":", "0", "0" >>), MTimeA, Tracks("Image")),
      RegularFile(<< << "d", ".", "j", "p", "g" >> >>, ExifDate(<< "2", "0", "1", "3", ":", "1", "3", ":", "0", "1", " ", "0", "9", ":", "1", "7", ":", "5", "0" >>), MTimeA, Tracks("Image")),
      RegularFile(<< << "u", ".", "j", "p", "g" >> >>, ExifDate(<< "2", "0", "1", "3", "-", "1", "0", "-", "0", "1" >>), MTimeA, Tracks("Image")),
      RegularFile(<< << "n", ".", "p", "n", "g" >> >>,
                  [open |-> "ok", ifd |-> [t \in {"ExifVersion"} |-> << "0", "2", "3", "2" >>]],
                  MTimeA, Tracks("Image")),
      RegularFile(<< << "m", ".", "m", "p", "4" >> >>, NoExif, MTimeB, Tracks("Video")),
      RegularFile(<< << "s", ".", "m", "p", "3" >> >>, NoExif, MTimeB, Tracks("Audio")),
      RegularFile(<< << "f", ".", "x", "y", "z" >> >>, [open |-> "OSError", ifd |-> << >>], MTimeB,
                  [raises |-> "RuntimeError", tracks |-> << >>]),
      RegularFile(<< << "R", "E", "A", "D", "M", "E" >> >>, NoExif, MTimeB,
                  [raises |-> "none", tracks |-> << "General" >>]),
      UncopyableFile(<< << "g", ".", "j", "p", "g" >> >>, NoExif, MTimeA, Tracks("Image")),
      Directory(<< << "s", "u", "b", ".", "d" >> >>),
      RegularFile(<< << "s", "u", "b", ".", "d" >>, << "e", ".", "J", "P", "G" >> >>, ExifDate(<< "2", "0", "1", "3", ":", "1", "0", ":", "0", "1", " ", "0", "9", ":", "1", "7", ":", "5", "0" >>), MTimeB, Tracks("Image")) }

\* A tree holds the directories of its files
IsTree(S) ==
    \A e \in S : Len(e.path) > 1 =>
        \E d \in S : ~d.isfile /\ d.path = Parent(e.path)

Trees == { S \in SUBSET EntryPool : Cardinality(S) <= MaxFiles /\ IsTree(S) }

\* What working_dir may hold when the object is constructed: nothing, or the
\* output of earlier use in images/2013/october
OldName == << "1", "0", "-", "0", "1", "-", "2", "0", "1", "3", " ", "[", "0", "9", ".", "1", "7", ".", "5", "0", "]", ".", "j", "p", "g" >>

OldName1 == << "1", "0", "-", "0", "1", "-", "2", "0", "1", "3", " ", "[", "0", "9", ".", "1", "7", ".", "5", "0", "]", "(", "1", ")", ".", "j", "p", "g" >>

OldName3 == << "1", "0", "-", "0", "1", "-", "2", "0", "1", "3", " ", "[", "0", "9", ".", "1", "7", ".", "5", "0", "]", "(", "3", ")", ".", "j", "p", "g" >>

OldFolder == << image_dir_name, << "2", "0", "1", "3" >>, << "o", "c", "t", "o", "b", "e", "r" >> >>

OldContent == << >>

OldOutputs ==
    { {},
      { [path |-> Append(OldFolder, n), content |-> OldContent] :
          n \in {OldName, OldName1, OldName3} } }

\* ------------------------------------------------------------------ state
VARIABLES
    move_file,        \* __init__: move instead of copy
    fast_parse,       \* __init__: classify by extension
    get_progress,     \* parse_dir argument
    recursive_search, \* parse_dir argument
    callback,         \* parse_dir argument: "None" or "callable"
    src,              \* the entries of the scanned directory
    out,              \* the files under working_dir: {[path, content]}
    dirs,             \* the directories under working_dir
    total_images, total_videos, total_unknown,
    pc,               \* "idle", "loop", "done" or "raised"
    runs,             \* parse_dir calls made so far
    glob_dir,         \* parse_dir: the sorted list of matched paths
    idx,              \* parse_dir: position of the for loop in glob_dir
    progress,         \* parse_dir: progress counter
    exc,              \* the exception that left parse_dir, and at which file
    cbs,              \* records the callback received in the current call
    printed,          \* lines printed by the current call
    log,              \* files named in the exception log
    processed,        \* files classified in the current call, in order
    placed            \* every copy2/move made since construction, in order

vars == << move_file, fast_parse, get_progress, recursive_search, callback,
           src, out, dirs, total_images, total_videos, total_unknown, pc,
           runs, glob_dir, idx, progress, exc, cbs, printed, log, processed,
           placed >>

config == << move_file, fast_parse, get_progress, recursive_search, callback >>

NoExc == [class |-> "none", file |-> << >>]

OutPaths == { f.path : f \in out }

\* copy2 / move: the destination holds the source's content afterwards
WriteFile(fs, dest, content) ==
    { f \in fs : f.path # dest } \cup { [path |-> dest, content |-> content] }

\* Every directory on the way to the files that exist at construction
RECURSIVE Ancestors(_)
Ancestors(path) ==
    IF Len(path) <= 1 THEN {} ELSE {Parent(path)} \cup Ancestors(Parent(path))

\* __init__ and _make_directories, over whatever working_dir held before
Init ==
    /\ move_file \in BOOLEAN
    /\ fast_parse \in BOOLEAN
    /\ get_progress \in BOOLEAN
    /\ recursive_search \in BOOLEAN
    /\ callback \in {"None", "callable"}
    /\ src \in Trees
    /\ out \in OldOutputs
    /\ dirs = {image_dir, video_dir, unknown_dir}
              \cup UNION { Ancestors(f.path) : f \in out }
    /\ total_images = 0
    /\ total_videos = 0
    /\ total_unknown = 0
    /\ pc = "idle"
    /\ runs = 0
    /\ glob_dir = << >>
    /\ idx = 1
    /\ progress = 1
    /\ exc = NoExc
    /\ cbs = << >>
    /\ printed = 0
    /\ log = << >>
    /\ processed = << >>
    /\ placed = << >>

\* Path(dir_path).rglob("*.*") / .glob("*.*"): the matching entries, files and
\* directories alike
GlobDir(entries, recursive) ==
    { e.path : e \in { x \in entries :
                         /\ MatchesStarDotStar(Name(x.path))
                         /\ (recursive \/ Len(x.path) = 1) } }

\* parse_dir, lines 95-105: the call begins
ParseDir ==
    /\ pc \in {"idle", "done", "raised"}
    /\ runs < MaxRuns
    /\ runs' = runs + 1
    /\ glob_dir' = SortPaths(GlobDir(src, recursive_search))
    /\ idx' = 1
    /\ progress' = 1
    /\ pc' = "loop"
    /\ exc' = NoExc
    /\ cbs' = << >>
    /\ printed' = 0
    /\ processed' = << >>
    /\ UNCHANGED << config, src, out, dirs, total_images, total_videos,
                    total_unknown, log, placed >>

\* Path(searched_file).is_file()
IsFile(path) == \E e \in src : e.path = path /\ e.isfile

Entry(path) == CHOOSE e \in src : e.path = path

Reporting == get_progress \/ callback = "callable"

\* parse_dir, lines 108-109 and 167: an entry that is no regular file
SkipEntry ==
    /\ pc = "loop"
    /\ idx <= Len(glob_dir)
    /\ ~IsFile(glob_dir[idx])
    /\ idx' = idx + 1
    /\ progress' = progress + 1
    /\ UNCHANGED << config, src, out, dirs, total_images, total_videos,
                    total_unknown, pc, runs, glob_dir, exc, cbs, printed, log,
                    processed, placed >>

\* parse_dir, lines 112 and 167: a regular file when neither get_progress nor
\* callback is set; the body of the if statement is not run
SkipUnreported ==
    /\ pc = "loop"
    /\ idx <= Len(glob_dir)
    /\ IsFile(glob_dir[idx])
    /\ ~Reporting
    /\ idx' = idx + 1
    /\ progress' = progress + 1
    /\ UNCHANGED << config, src, out, dirs, total_images, total_videos,
                    total_unknown, pc, runs, glob_dir, exc, cbs, printed, log,
                    processed, placed >>

\* The progress report of lines 112-133: a record to the callback, or a line
\* printed when there is no callable callback
ProgressRecord ==
    [type |-> "progress", progress |-> progress, total |-> Len(glob_dir)]

\* Mutant of ReportProgress: the callback is only called when get_progress
\* is set
ReportProgressIfFlag(records) ==
    IF get_progress /\ callback = "callable"
    THEN Append(records, ProgressRecord) ELSE records

\* Lines 112-133: the callback's records after the progress report
ReportProgress(records) ==
    IF callback = "callable" THEN Append(records, ProgressRecord) ELSE records

\* The record of one copy2/move
Placement(file, branch, time, r) ==
    [run |-> runs, src |-> file.path, branch |-> branch, time |-> time,
     file_name |-> r.file_name, date_dir_file |-> r.date_dir_file,
     dest |-> r.dest, collided |-> r.collided,
     overwrote |-> r.dest \in OutPaths,
     before |-> { Name(q) : q \in { x \in OutPaths : Parent(x) = Parent(r.dest) } }]

\* parse_dir, lines 109-167: one regular file is reported, classified, dated,
\* placed and counted.  An exception of the sorter (the month lookup, or
\* copy2/move, taken to fail before anything is written) leaves parse_dir.
ProcessFile ==
    /\ pc = "loop"
    /\ idx <= Len(glob_dir)
    /\ IsFile(glob_dir[idx])
    /\ Reporting
    /\ LET file == Entry(glob_dir[idx])
           mt == MediaType(file, fast_parse)
           ex == get_exif(file)
           time == FileCreationDate(file)
           branch == Branch(mt.val)
           r == CallSorter(branch, OutPaths, dirs, file.path, time)
           totals == CountersAfter(branch,
                                   [images |-> total_images,
                                    videos |-> total_videos,
                                    unknown |-> total_unknown])
           raised == CountersOnRaise(branch,
                                     [images |-> total_images,
                                      videos |-> total_videos,
                                      unknown |-> total_unknown])
       IN  /\ cbs' = ReportProgress(cbs)
           /\ printed' = IF callback = "callable" THEN printed ELSE printed + 1
           /\ processed' = Append(processed, file.path)
           /\ IF mt.exc # "none"
              THEN /\ pc' = "raised"
                   /\ exc' = [class |-> mt.exc, file |-> file.path]
                   /\ log' = log
                   /\ UNCHANGED << src, out, dirs, total_images, total_videos,
                                   total_unknown, idx, progress, placed >>
              ELSE
                /\ log' = log \o (IF mt.logged THEN << file.path >> ELSE << >>)
                              \o (IF ex.logged THEN << file.path >> ELSE << >>)
                /\ IF branch = "none"
                   THEN /\ idx' = idx + 1
                        /\ progress' = progress + 1
                        /\ UNCHANGED << src, out, dirs, total_images,
                                        total_videos, total_unknown, pc, exc,
                                        placed >>
                   ELSE IF r.exc # "none" \/ CopyError(file) # "none"
                   THEN /\ pc' = "raised"
                        /\ exc' = [class |-> IF r.exc # "none" THEN r.exc
                                             ELSE CopyError(file),
                                   file |-> file.path]
                        /\ dirs' = dirs \cup r.made
                        /\ total_images' = raised.images
                        /\ total_videos' = raised.videos
                        /\ total_unknown' = raised.unknown
                        /\ UNCHANGED << src, out, idx, progress, placed >>
                   ELSE /\ out' = WriteFile(out, r.dest, file.path)
                        /\ dirs' = dirs \cup r.made
                        /\ src' = IF move_file THEN src \ {file} ELSE src
                        /\ total_images' = totals.images
                        /\ total_videos' = totals.videos
                        /\ total_unknown' = totals.unknown
                        /\ placed' = Append(placed, Placement(file, branch, time, r))
                        /\ idx' = idx + 1
                        /\ progress' = progress + 1
                        /\ UNCHANGED << pc, exc >>
    /\ UNCHANGED << config, runs, glob_dir >>

\* The summary record of lines 171-177
SummaryRecord ==
    [type |-> "summary", total_images |-> DecStr(total_images),
     total_videos |-> DecStr(total_videos),
     total_unknown |-> DecStr(total_unknown)]

\* parse_dir, lines 169-177: the loop is over; callback is called with the
\* totals, which raises TypeError when callback is None
Finish ==
    /\ pc = "loop"
    /\ idx > Len(glob_dir)
    /\ IF ~Reporting
       THEN pc' = "done" /\ UNCHANGED << exc, cbs >>
       ELSE IF callback = "callable"
       THEN pc' = "done" /\ cbs' = Append(cbs, SummaryRecord) /\ UNCHANGED exc
       ELSE /\ pc' = "raised"
            /\ exc' = [class |-> "TypeError", file |-> << >>]
            /\ UNCHANGED cbs
    /\ UNCHANGED << config, src, out, dirs, total_images, total_videos,
                    total_unknown, runs, glob_dir, idx, progress, printed,
                    log, processed, placed >>

Next == ParseDir \/ SkipEntry \/ SkipUnreported \/ ProcessFile \/ Finish

Spec == Init /\ [][Next]_vars

\* ------------------------------------------------------------------ claims
\* The scanned entry a path named, also after a move took it out of src
PoolEntry(path) == CHOOSE e \in EntryPool : e.path = path

\* The counter a file name carries, 0 when it carries none
CounterOf(name) ==
    IF RegexSearch(name) = None THEN 0 ELSE DecVal(RegexSearch(name))

\* The highest counter among a set of file names, 0 when none carries one
HighestCounter(names) ==
    CHOOSE h \in { CounterOf(n) : n \in names } \cup {0} :
        \A n \in names : CounterOf(n) <= h

\* C1: no placement writes to a destination path that already exists, so no
\* previously placed file is overwritten.
C1_NeverOverwrites ==
    \A i \in DOMAIN placed : ~placed[i].overwrote

\* C2: on a collision the new name is the base name with (h+1) before the
\* extension, h being the highest counter among the file names of the month
\* folder, and (1) when no name carries a counter.
C2_HighestPlusOne ==
    \A i \in DOMAIN placed :
        placed[i].collided =>
            Name(placed[i].dest)
              = WithoutSuffix(placed[i].file_name)
                \o << "(" >> \o DecStr(HighestCounter(placed[i].before) + 1)
                \o << ")" >> \o Suffix(placed[i].file_name)

\* C3: in copy mode, run after run on the same tree, every file of a later
\* run is placed at a new counter-suffixed path, nothing placed before is
\* overwritten, and the counters given to colliding files with the same
\* computed destination strictly increase in processing order.
C3_RepeatedRunsIncrease ==
    ~move_file =>
        \A j \in DOMAIN placed :
            placed[j].run >= 2 =>
                /\ placed[j].collided
                /\ ~placed[j].overwrote
                /\ \A i \in 1..(j - 1) :
                      ( /\ placed[i].date_dir_file = placed[j].date_dir_file
                        /\ placed[i].collided )
                      => CounterOf(Name(placed[i].dest))
                           < CounterOf(Name(placed[j].dest))

\* C4: every regular file parse_dir has processed was placed under the images,
\* videos or unknown directory (stated for the calls that raised nothing).
C4_EveryProcessedFilePlaced ==
    pc # "raised" =>
        \A k \in DOMAIN processed :
            \E i \in DOMAIN placed :
                /\ placed[i].run = runs
                /\ placed[i].src = processed[k]
                /\ placed[i].dest[1] \in
                       {image_dir_name, video_dir_name, unknown_dir_name}

\* The number of copy2/move calls into a category directory
PlacedInto(dir_name) ==
    Cardinality({ i \in DOMAIN placed : placed[i].dest[1] = dir_name })

SummaryMatchesPlacements ==
    \A k \in DOMAIN cbs :
        cbs[k].type = "summary" =>
            /\ cbs[k].total_images = DecStr(PlacedInto(image_dir_name))
            /\ cbs[k].total_videos = DecStr(PlacedInto(video_dir_name))
            /\ cbs[k].total_unknown = DecStr(PlacedInto(unknown_dir_name))

\* C5: over any sequence of parse_dir calls on one object the three counters
\* never decrease, and the summary record reports for each category the
\* number of files placed into it since the object was constructed.
C5_CountersMatchPlacements ==
    [][ /\ total_images' >= total_images
        /\ total_videos' >= total_videos
        /\ total_unknown' >= total_unknown
        /\ SummaryMatchesPlacements' ]_vars

\* Witness of C5: the second call has ended with a summary, after placements
\* into two categories in both calls
C5_Witness ==
    /\ pc = "done"
    /\ runs = 2
    /\ cbs # << >>
    /\ cbs[Len(cbs)].type = "summary"
    /\ cbs[Len(cbs)].total_images = << "2" >>
    /\ cbs[Len(cbs)].total_unknown = << "2" >>

\* The probe of a file failed with an exception
ProbeFailed(path) == PoolEntry(path).probe.raises # "none"

TagOf(e) ==
    IF e.exif.open = "ok" /\ "DateTimeOriginal" \in DOMAIN e.exif.ifd
    THEN Replace(e.exif.ifd["DateTimeOriginal"], "NUL", << >>)
    ELSE None

\* The all-zero date in the tag's native representation
ZeroDate == << "0", "0", "0", "0", ":", "0", "0", ":", "0", "0", " ", "0", "0", ":", "0", "0", ":", "0", "0" >>

\* YYYY:MM:DD HH:MM:SS with a month in 1..12
WellFormedDate(t) ==
    /\ Len(t) = 19
    /\ \A i \in {1, 2, 3, 4, 6, 7, 9, 10, 12, 13, 15, 16, 18, 19} : IsDigit(t[i])
    /\ \A i \in {5, 8, 14, 17} : t[i] = ":"
    /\ t[11] = " "
    /\ DecVal(SubSeq(t, 6, 7)) \in 1..12

\* C7: a file whose capture date tag holds the all-zero date is placed using
\* its modification time.
C7_ZeroDateIsAbsent ==
    \A i \in DOMAIN placed :
        TagOf(PoolEntry(placed[i].src)) = ZeroDate =>
            placed[i].time = get_modification_time(PoolEntry(placed[i].src))

\* C8: a file whose capture date tag is missing, unreadable or malformed does
\* not make parse_dir raise and is placed using its modification time (the
\* all-zero date is C7's case and is left out here).
C8_BadTagFallsBack ==
    /\ (pc = "raised" /\ exc.file # << >>) =>
           WellFormedDate(TagOf(PoolEntry(exc.file)))
    /\ \A i \in DOMAIN placed :
           ( /\ ~WellFormedDate(TagOf(PoolEntry(placed[i].src)))
             /\ TagOf(PoolEntry(placed[i].src)) # ZeroDate )
           => placed[i].time = get_modification_time(PoolEntry(placed[i].src))

\* MM-DD-YYYY [HH.MM.SS]
IsTimestampFormat(t) ==
    /\ Len(t) = 21
    /\ \A i \in {1, 2, 4, 5, 7, 8, 9, 10, 13, 14, 16, 17, 19, 20} : IsDigit(t[i])
    /\ t[3] = "-" /\ t[6] = "-" /\ t[11] = " " /\ t[12] = "["
    /\ t[15] = "." /\ t[18] = "." /\ t[21] = "]"

\* The category directory of the kind a file is classified as
CategoryOf(path) ==
    LET kind == MediaType(PoolEntry(path), fast_parse).val
    IN  IF kind = "Image" THEN image_dir_name
        ELSE IF kind = "Video" THEN video_dir_name
        ELSE unknown_dir_name

\* C9: a file placed without collision is at
\* <category>/<year>/<month name, lowercased>/<timestamp><lowercased extension>;
\* equal kind, timestamp and extension give equal computed destinations; the
\* capture date 2013:10:01 09:17:50 gives 2013/october/10-01-2013 [09.17.50].
C9_DestinationPath ==
    /\ \A i \in DOMAIN placed :
          (~placed[i].collided /\ IsTimestampFormat(placed[i].time)) =>
              placed[i].dest =
                  PathJoin(PathJoin(PathJoin(<< CategoryOf(placed[i].src) >>,
                                             SubSeq(placed[i].time, 7, 10)),
                                    Lower(month_name[DecVal(SubSeq(placed[i].time, 1, 2)) + 1])),
                           placed[i].time \o Lower(Suffix(Name(placed[i].src))))
    /\ \A i, j \in DOMAIN placed :
          ( /\ CategoryOf(placed[i].src) = CategoryOf(placed[j].src)
            /\ placed[i].time = placed[j].time
            /\ Lower(Suffix(Name(placed[i].src))) = Lower(Suffix(Name(placed[j].src))) )
          => placed[i].date_dir_file = placed[j].date_dir_file
    /\ \A i \in DOMAIN placed :
          ( /\ ~placed[i].collided
            /\ TagOf(PoolEntry(placed[i].src)) = << "2", "0", "1", "3", ":", "1", "0", ":", "0", "1", " ", "0", "9", ":", "1", "7", ":", "5", "0" >> )
          => placed[i].dest =
                 << CategoryOf(placed[i].src), << "2", "0", "1", "3" >>, << "o", "c", "t", "o", "b", "e", "r" >>,
                    << "1", "0", "-", "0", "1", "-", "2", "0", "1", "3", " ", "[", "0", "9", ".", "1", "7", ".", "5", "0", "]" >>
                    \o Lower(Suffix(Name(placed[i].src))) >>

\* Witness of C9: a.JPG, dated 2013:10:01 09:17:50, was placed without collision
C9_Witness ==
    \E i \in DOMAIN placed :
        /\ ~placed[i].collided
        /\ placed[i].src = << << "a", ".", "J", "P", "G" >> >>
        /\ placed[i].dest = << image_dir_name, << "2", "0", "1", "3" >>, << "o", "c", "t", "o", "b", "e", "r" >>,
                               << "1", "0", "-", "0", "1", "-", "2", "0", "1", "3", " ", "[", "0", "9", ".", "1", "7", ".", "5", "0", "]", ".", "j", "p", "g" >> >>

\* C10: a call that ended has processed, in ascending path order, every
\* regular file under dir_path (recursive_search) or directly in it (stated
\* for copy mode and for calls that report progress).
C10_EveryRegularFileProcessed ==
    (pc = "done" /\ Reporting /\ ~move_file) =>
        processed =
            SortPaths({ e.path : e \in { x \in src :
                          x.isfile /\ (recursive_search \/ Len(x.path) = 1) } })

\* C11: when copy2/move of a file fails, the error leaves parse_dir: the
\* counters are not incremented, nothing is placed, no summary is delivered,
\* and no later file of the call is classified or placed (the only step after
\* the error is a new call).
C11_CopyFailurePropagates ==
    [][ /\ (pc = "loop" /\ pc' = "raised" /\ exc'.class = "OSError") =>
              /\ exc'.file = glob_dir[idx]
              /\ total_images' = total_images
              /\ total_videos' = total_videos
              /\ total_unknown' = total_unknown
              /\ placed' = placed
              /\ out' = out
              /\ src' = src
              /\ \A k \in DOMAIN cbs' : cbs'[k].type # "summary"
        /\ (pc = "raised" /\ exc.class = "OSError") =>
              /\ runs' = runs + 1
              /\ pc' = "loop"
              /\ placed' = placed
              /\ total_images' = total_images
              /\ total_videos' = total_videos
              /\ total_unknown' = total_unknown ]_vars

\* Witness of C11: the copy of a file failed while a later file of the listing
\* was still to be processed
C11_Witness ==
    /\ pc = "raised"
    /\ exc.class = "OSError"
    /\ callback = "callable"
    /\ idx < Len(glob_dir)
    /\ IsFile(glob_dir[idx + 1])

\* The regular files among the first n entries of the listing
FilesAmong(n) ==
    { k \in 1..n : PoolEntry(glob_dir[k]).isfile }

\* The records of a type the callback received in the current call
RecordsOf(type) ==
    { k \in DOMAIN cbs : cbs[k].type = type }

\* C12: with a callable callback, a call delivers one progress record per
\* regular file processed, none for the entries it skips, and one summary
\* record, which is the last record of a call that ran to its end.
C12_CallbackRecords ==
    callback = "callable" =>
        /\ pc \in {"loop", "done"} =>
              Cardinality(RecordsOf("progress"))
                = Cardinality(FilesAmong(idx - 1))
        /\ pc = "done" =>
              /\ Cardinality(RecordsOf("summary")) = 1
              /\ cbs[Len(cbs)].type = "summary"
        /\ pc # "done" => RecordsOf("summary") = {}

\* Witness of C12: a call with a callback ended after skipping a directory
\* and placing a file
C12_Witness ==
    /\ callback = "callable"
    /\ pc = "done"
    /\ \E k \in DOMAIN glob_dir : ~PoolEntry(glob_dir[k]).isfile
    /\ Len(cbs) = 2
    /\ cbs[1].type = "progress"
    /\ cbs[2].type = "summary"
    /\ placed # << >>

\* C13: without a callback and with get_progress set, parse_dir processes the
\* files and returns without raising.
C13_NoCallbackReturns ==
    (callback = "None" /\ get_progress) =>
        ~(pc = "raised" /\ exc.class = "TypeError")

\* C14: after a call, every file it placed is at its resolved destination; in
\* copy mode it is still at its source path, in move mode it is not.
C14_CopyKeepsMoveRemoves ==
    pc = "done" =>
        \A i \in DOMAIN placed :
            placed[i].run = runs =>
                /\ [path |-> placed[i].dest, content |-> placed[i].src] \in out
                /\ move_file <=> ~(\E e \in src : e.path = placed[i].src)

\* C15: whatever get_progress and callback are, a call that reached the end
\* of its listing has classified every regular file of the listing.
C15_FlagsOnlyAffectReporting ==
    (pc \in {"done", "raised"} /\ idx > Len(glob_dir)) =>
        Len(processed) = Cardinality(FilesAmong(Len(glob_dir)))

====
